---- MODULE Spec2Model ----
(***************************************************************************)
(* A model of attributecode/saneyaml.py: the SaneLoader / SaneDumper rule  *)
(* tables built while the module is imported, and load() / dump() running  *)
(* over them.                                                              *)
(*                                                                         *)
(* Python 2 semantics are modelled (str is the byte string type, unicode   *)
(* the text type), as the package's other module (urllib2, httplib) needs. *)
(*                                                                         *)
(* Strings are sequences of one-character strings.  A YAML document is     *)
(* modelled at the level PyYAML hands it over between emitter and scanner: *)
(* a tree of written scalars (style, explicit tag, characters), block      *)
(* sequences and block mappings.  The characters of a written scalar are   *)
(* what the scanner reads back (PyYAML's quoting and escaping); the tag a  *)
(* scalar is read back with, and hence the value built from it, is         *)
(* computed by the resolver and the constructor table below.               *)
(***************************************************************************)
EXTENDS Integers, Sequences, FiniteSets, TLC

\* ------------------------------------------------------------------ bounds
\* dump/load calls chained on one input
MaxCalls == 4
\* items of an input sequence
MaxLen == 2
\* key/value pairs of an input mapping (source text or tree)
MaxPairs == 3

\* ------------------------------------------------------------- characters
Rep(c, n) == [i \in 1..n |-> c]

Digits == {"0", "1", "2", "3", "4", "5", "6", "7", "8", "9"}

NL == "\n"
CR == "\r"
SP == " "

\* the line length above which string_dumper calls a line long
LongLine == 40

S_abc == <<"a", "b", "c">>
S_true == <<"t", "r", "u", "e">>
S_yes == <<"y", "e", "s">>
S_no == <<"n", "o">>
S_123 == <<"1", "2", "3">>
S_1 == <<"1">>
S_2 == <<"2">>
S_314 == <<"3", ".", "1", "4">>
S_1e20 == <<"1", "e", "+", "2", "0">>
S_date == <<"2", "0", "2", "0", "-", "0", "1", "-", "0", "1">>
S_null == <<"n", "u", "l", "l">>
S_tilde == <<"~">>
S_empty == <<>>
S_a == <<"a">>
S_b == <<"b">>
S_c == <<"c">>
S_flag == <<"f", "l", "a", "g">>
\* "a\nb"
S_multi == <<"a", NL, "b">>
\* a single line of exactly LongLine characters, with a space
S_line40 == Rep("a", LongLine - 21) \o <<SP>> \o Rep("a", 20)
\* a single line of LongLine + 1 characters, with a space
S_line41 == Rep("a", LongLine - 20) \o <<SP>> \o Rep("a", 20)
\* a single line of LongLine + 1 characters, without a space
S_word41 == Rep("a", LongLine + 1)
\* a long line with a space, then a line break and a second line
S_multilong == S_line41 \o <<NL, "b">>
\* two short lines, the second holding a space, with a long first line cut by NL
S_shortlines == <<"a", SP, "b", NL, "c">>
\* 63 characters with a space and a carriage return in the middle, no "\n"
S_cr == Rep("a", 30) \o <<CR>> \o Rep("b", 30) \o <<SP, "c">>
\* trailing space
S_trail == <<"a", "b", SP>>

\* ---------------------------------------------------------- string helpers
Has(s, c) == \E i \in 1..Len(s) : s[i] = c

AllIn(s, set) == \A i \in 1..Len(s) : s[i] \in set

\* unicode.splitlines(False): the pieces between line boundaries; "\n", "\r"
\* and "\r\n" are boundaries (of the model's characters), and a final
\* boundary opens no further line
RECURSIVE SplitFrom(_, _)
SplitFrom(s, i) ==
    IF i > Len(s) THEN <<>>
    ELSE LET ends == {j \in i..Len(s) : s[j] \in {NL, CR}}
             j == IF ends = {} THEN Len(s) + 1
                  ELSE CHOOSE e \in ends : \A f \in ends : e <= f
             k == IF j < Len(s) /\ s[j] = CR /\ s[j + 1] = NL THEN j + 2 ELSE j + 1
         IN  <<SubSeq(s, i, j - 1)>> \o SplitFrom(s, k)

splitlines(s) == SplitFrom(s, 1)

\* repr() of a non-negative Python int: its decimal digits
DigitChar(d) ==
    CASE d = 0 -> "0" [] d = 1 -> "1" [] d = 2 -> "2" [] d = 3 -> "3"
      [] d = 4 -> "4" [] d = 5 -> "5" [] d = 6 -> "6" [] d = 7 -> "7"
      [] d = 8 -> "8" [] d = 9 -> "9"

RECURSIVE repr_int(_)
repr_int(n) == IF n < 10 THEN <<DigitChar(n)>>
               ELSE Append(repr_int(n \div 10), DigitChar(n % 10))

\* ------------------------------------------------ tags and implicit resolver
TagStr == "tag:yaml.org,2002:str"
TagNull == "tag:yaml.org,2002:null"
TagBool == "tag:yaml.org,2002:bool"
TagBoolean == "tag:yaml.org,2002:boolean"
TagInt == "tag:yaml.org,2002:int"
TagFloat == "tag:yaml.org,2002:float"
TagTimestamp == "tag:yaml.org,2002:timestamp"
TagSeq == "tag:yaml.org,2002:seq"
TagMap == "tag:yaml.org,2002:map"
TagOmap == "tag:yaml.org,2002:omap"
TagSet == "tag:yaml.org,2002:set"

\* The implicit resolvers SaneLoader and SaneDumper inherit from
\* yaml.resolver.Resolver, for the characters of the model (YAML 1.1).
BoolWords ==
    { <<"y","e","s">>, <<"Y","e","s">>, <<"Y","E","S">>,
      <<"n","o">>, <<"N","o">>, <<"N","O">>,
      <<"t","r","u","e">>, <<"T","r","u","e">>, <<"T","R","U","E">>,
      <<"f","a","l","s","e">>, <<"F","a","l","s","e">>, <<"F","A","L","S","E">>,
      <<"o","n">>, <<"O","n">>, <<"O","N">>,
      <<"o","f","f">>, <<"O","f","f">>, <<"O","F","F">> }

NullWords == { <<"~">>, <<"n","u","l","l">>, <<"N","u","l","l">>,
               <<"N","U","L","L">>, <<>> }

\* [-+]?(?:0|[1-9][0-9_]*) and [-+]?0[0-7_]+
Unsigned(s) == IF Len(s) > 0 /\ s[1] \in {"-", "+"} THEN Tail(s) ELSE s

IsIntWord(s) ==
    LET u == Unsigned(s) IN
    /\ Len(u) > 0
    /\ \/ u = <<"0">>
       \/ u[1] \in Digits \ {"0"} /\ AllIn(Tail(u), Digits \cup {"_"})
       \/ /\ u[1] = "0"
          /\ Len(u) > 1
          /\ AllIn(Tail(u), {"0", "1", "2", "3", "4", "5", "6", "7", "_"})

\* [-+]?[0-9][0-9_]*\.[0-9_]*(?:[eE][-+][0-9]+)?  and  \.[0-9_]+(...)?
IsExponent(s) ==
    \/ s = <<>>
    \/ /\ Len(s) >= 3
       /\ s[1] \in {"e", "E"}
       /\ s[2] \in {"-", "+"}
       /\ AllIn(SubSeq(s, 3, Len(s)), Digits)

IsFloatWord(s) ==
    \E d \in 1..Len(s) :
      /\ s[d] = "."
      /\ \E e \in d..Len(s) :
           /\ AllIn(SubSeq(s, d + 1, e), Digits \cup {"_"})
           /\ IsExponent(SubSeq(s, e + 1, Len(s)))
           /\ \/ LET u == Unsigned(SubSeq(s, 1, d - 1)) IN
                 /\ Len(u) > 0
                 /\ u[1] \in Digits
                 /\ AllIn(u, Digits \cup {"_"})
              \/ d = 1 /\ e > d

\* [0-9][0-9][0-9][0-9]-[0-9][0-9]-[0-9][0-9]
IsTimestampWord(s) ==
    /\ Len(s) = 10
    /\ \A i \in {1, 2, 3, 4, 6, 7, 9, 10} : s[i] \in Digits
    /\ s[5] = "-"
    /\ s[8] = "-"

\* Resolver.resolve(ScalarNode, value, implicit): the detected tag when the
\* scalar was written plain (implicit[0]), the default scalar tag otherwise
ResolveScalar(s, plain) ==
    IF ~plain THEN TagStr
    ELSE IF s \in BoolWords THEN TagBool
    ELSE IF IsFloatWord(s) THEN TagFloat
    ELSE IF IsIntWord(s) THEN TagInt
    ELSE IF s \in NullWords THEN TagNull
    ELSE IF IsTimestampWord(s) THEN TagTimestamp
    ELSE TagStr

\* ------------------------------------------------------------ Python values
\* A value is a record: its exact type (cls), and by type an int (num), the
\* characters of a string or of a float's repr (str), or its items (sub: the
\* items of a list, the [key, val] pairs of a mapping in iteration order).
Py(c, n, s, items) == [cls |-> c, num |-> n, str |-> s, sub |-> items]

PyNone == Py("NoneType", 0, <<>>, <<>>)
PyBool(b) == Py("bool", IF b THEN 1 ELSE 0, <<>>, <<>>)
PyInt(n) == Py("int", n, <<>>, <<>>)
PyFloat(r) == Py("float", 0, r, <<>>)
PyUnicode(s) == Py("unicode", 0, s, <<>>)
PyStr(s) == Py("str", 0, s, <<>>)
PyList(items) == Py("list", 0, <<>>, items)
PyTuple(items) == Py("tuple", 0, <<>>, items)
PyOrderedDict(pairs) == Py("OrderedDict", 0, <<>>, pairs)
PyDate(iso) == Py("date", 0, iso, <<>>)
PyObject == Py("object", 0, <<>>, <<>>)
PyComplex == Py("complex", 0, <<>>, <<>>)

Pair(k, v) == [key |-> k, val |-> v]

SequenceTypes == {"list", "tuple"}
MappingTypes == {"OrderedDict"}

\* --------------------------------- the rule tables of the yaml base classes
\* yaml.constructor.SafeConstructor.yaml_constructors, by tag
SafeConstructor_yaml_constructors ==
    (TagNull :> "construct_yaml_null") @@ (TagBool :> "construct_yaml_bool")
    @@ (TagInt :> "construct_yaml_int") @@ (TagFloat :> "construct_yaml_float")
    @@ (TagTimestamp :> "construct_yaml_timestamp")
    @@ (TagOmap :> "construct_yaml_omap") @@ (TagSet :> "construct_yaml_set")
    @@ (TagStr :> "construct_yaml_str") @@ (TagSeq :> "construct_yaml_seq")
    @@ (TagMap :> "construct_yaml_map") @@ ("None" :> "construct_undefined")

\* yaml.representer.SafeRepresenter.yaml_representers, by exact type
SafeRepresenter_yaml_representers ==
    ("NoneType" :> "represent_none") @@ ("str" :> "represent_str")
    @@ ("unicode" :> "represent_unicode") @@ ("bool" :> "represent_bool")
    @@ ("int" :> "represent_int") @@ ("long" :> "represent_long")
    @@ ("float" :> "represent_float") @@ ("list" :> "represent_list")
    @@ ("tuple" :> "represent_list") @@ ("dict" :> "represent_dict")
    @@ ("set" :> "represent_set") @@ ("date" :> "represent_date")
    @@ ("datetime" :> "represent_datetime") @@ ("None" :> "represent_undefined")

LoaderClasses == {"SafeLoader", "SaneLoader"}
DumperClasses == {"SafeDumper", "SaneDumper"}

\* class SaneLoader(SafeLoader), class SaneDumper(SafeDumper); SafeLoader and
\* SafeDumper derive from SafeConstructor and SafeRepresenter
SaneLoaderBase == "SafeLoader"
SaneDumperBase == "SafeDumper"

Base(c) == CASE c = "SaneLoader" -> SaneLoaderBase
             [] c = "SaneDumper" -> SaneDumperBase
             [] c = "SafeLoader" -> "SafeConstructor"
             [] c = "SafeDumper" -> "SafeRepresenter"

\* ------------------------------------------------------------ module body
\* The registration statements the module runs when it is imported, in order.
Stmt(o, c, k, f) == [op |-> o, class |-> c, key |-> k, fn |-> f]

\* the module body without ordered_loader registered for maps
ModuleBody_NoOrderedLoader ==
    << Stmt("add_constructor", "SaneLoader", TagStr, "string_loader"),
       Stmt("add_constructor", "SaneLoader", TagNull, "string_loader"),
       Stmt("add_constructor", "SaneLoader", TagBoolean, "string_loader"),
       Stmt("add_constructor", "SaneLoader", TagTimestamp, "string_loader"),
       Stmt("add_constructor", "SaneLoader", TagFloat, "string_loader"),
       Stmt("add_constructor", "SaneLoader", TagInt, "string_loader"),
       Stmt("add_constructor", "SaneLoader", TagNull, "string_loader"),
       Stmt("add_constructor", "SaneLoader", TagOmap, "ordered_loader"),
       Stmt("add_representer", "SaneDumper", "OrderedDict", "ordered_dumper"),
       Stmt("add_representer", "SafeDumper", "NoneType", "null_dumper"),
       Stmt("add_representer", "SaneDumper", "str", "string_dumper"),
       Stmt("add_representer", "SaneDumper", "unicode", "string_dumper"),
       Stmt("add_representer", "SaneDumper", "int", "string_dumper_int"),
       Stmt("add_representer", "SaneDumper", "float", "string_dumper_float"),
       Stmt("add_representer", "SaneDumper", "bool", "boolean_dumper") >>

\* the module body with string_dumper also registered as the rule of last
\* resort
ModuleBody_DefaultRule ==
    << Stmt("add_constructor", "SaneLoader", TagStr, "string_loader"),
       Stmt("add_constructor", "SaneLoader", TagNull, "string_loader"),
       Stmt("add_constructor", "SaneLoader", TagBoolean, "string_loader"),
       Stmt("add_constructor", "SaneLoader", TagTimestamp, "string_loader"),
       Stmt("add_constructor", "SaneLoader", TagFloat, "string_loader"),
       Stmt("add_constructor", "SaneLoader", TagInt, "string_loader"),
       Stmt("add_constructor", "SaneLoader", TagNull, "string_loader"),
       Stmt("add_constructor", "SaneLoader", TagMap, "ordered_loader"),
       Stmt("add_constructor", "SaneLoader", TagOmap, "ordered_loader"),
       Stmt("add_representer", "SaneDumper", "OrderedDict", "ordered_dumper"),
       Stmt("add_representer", "SafeDumper", "NoneType", "null_dumper"),
       Stmt("add_representer", "SaneDumper", "str", "string_dumper"),
       Stmt("add_representer", "SaneDumper", "unicode", "string_dumper"),
       Stmt("add_representer", "SaneDumper", "None", "string_dumper"),
       Stmt("add_representer", "SaneDumper", "int", "string_dumper_int"),
       Stmt("add_representer", "SaneDumper", "float", "string_dumper_float"),
       Stmt("add_representer", "SaneDumper", "bool", "boolean_dumper") >>

ModuleBody ==
    << Stmt("add_constructor", "SaneLoader", TagStr, "string_loader"),
       Stmt("add_constructor", "SaneLoader", TagNull, "string_loader"),
       Stmt("add_constructor", "SaneLoader", TagBoolean, "string_loader"),
       Stmt("add_constructor", "SaneLoader", TagTimestamp, "string_loader"),
       Stmt("add_constructor", "SaneLoader", TagFloat, "string_loader"),
       Stmt("add_constructor", "SaneLoader", TagInt, "string_loader"),
       Stmt("add_constructor", "SaneLoader", TagNull, "string_loader"),
       Stmt("add_constructor", "SaneLoader", TagMap, "ordered_loader"),
       Stmt("add_constructor", "SaneLoader", TagOmap, "ordered_loader"),
       Stmt("add_representer", "SaneDumper", "OrderedDict", "ordered_dumper"),
       Stmt("add_representer", "SafeDumper", "NoneType", "null_dumper"),
       Stmt("add_representer", "SaneDumper", "str", "string_dumper"),
       Stmt("add_representer", "SaneDumper", "unicode", "string_dumper"),
       Stmt("add_representer", "SaneDumper", "int", "string_dumper_int"),
       Stmt("add_representer", "SaneDumper", "float", "string_dumper_float"),
       Stmt("add_representer", "SaneDumper", "bool", "boolean_dumper") >>

VARIABLES
    stmt,               \* the next statement of ModuleBody to run
    yaml_constructors,  \* per loader class: its own table, if it has one
    yaml_representers,  \* per dumper class: its own table, if it has one
    pc,                 \* "import", "idle", "loading"
    obj,                \* the tree last given to dump or returned by load
    text,               \* the document last given to load or returned by dump
    err,                \* the error the last call raised, or "none"
    node,               \* the node graph the last call composed or represented
    built,              \* load: the values built so far, by node path
    state_generators,   \* load: the constructors waiting to be resumed
    calls               \* the calls made on the current input, and their results

vars == <<stmt, yaml_constructors, yaml_representers, pc, obj, text, err,
          node, built, state_generators, calls>>

NoTable == [own |-> FALSE, tbl |-> <<>>]
NoValue == Py("<none>", 0, <<>>, <<>>)

\* a class attribute read through the class and its bases
RECURSIVE TableOf(_, _, _)
TableOf(tables, c, root) ==
    IF c \notin DOMAIN tables THEN root
    ELSE IF tables[c].own THEN tables[c].tbl
    ELSE TableOf(tables, Base(c), root)

\* BaseConstructor.add_constructor / BaseRepresenter.add_representer: the
\* class gets a copy of the table it inherits the first time it registers
Registered(tables, c, root, k, f) ==
    [tables EXCEPT ![c] = [own |-> TRUE,
                           tbl |-> (k :> f) @@ TableOf(tables, c, root)]]

\* ------------------------------------------------- nodes and written text
\* The representation graph (yaml.nodes): what representers build and
\* constructors consume.  sty is the style a representer asks for.
ScalarNode(t, v, style) ==
    [cls |-> "ScalarNode", tag |-> t, sty |-> style, str |-> v, sub |-> <<>>]
SequenceNode(t, items) ==
    [cls |-> "SequenceNode", tag |-> t, sty |-> "", str |-> <<>>, sub |-> items]
MappingNode(t, pairs) ==
    [cls |-> "MappingNode", tag |-> t, sty |-> "", str |-> <<>>, sub |-> pairs]
ErrorNode == [cls |-> "RepresenterError", tag |-> "", sty |-> "", str |-> <<>>,
              sub |-> <<>>]

\* A written document: scalars with the style they are written in ("plain",
\* "single", "double", "literal", "folded") and the tag written before them
\* ("" when none is), block sequences, block mappings in written order.
Scalar(style, t, v) ==
    [cls |-> "scalar", tag |-> t, sty |-> style, str |-> v, sub |-> <<>>]
BlockSeq(items) ==
    [cls |-> "seq", tag |-> "", sty |-> "", str |-> <<>>, sub |-> items]
BlockMap(t, pairs) ==
    [cls |-> "map", tag |-> t, sty |-> "", str |-> <<>>, sub |-> pairs]
NoText == [cls |-> "<none>", tag |-> "", sty |-> "", str |-> <<>>, sub |-> <<>>]

Plain(v) == Scalar("plain", "", v)
Quoted(v) == Scalar("single", "", v)

HasError(items) == \E i \in 1..Len(items) : items[i].cls = "RepresenterError"
HasPairError(pairs) ==
    \E i \in 1..Len(pairs) : "RepresenterError" \in {pairs[i].key.cls, pairs[i].val.cls}

\* ------------------------------------------------------------------ dumpers
\* string_dumper's choice of style: "|" (literal), ">" (folded) or None ("")
\* a line of exactly LongLine characters counted as long
StringStyle_AtLeast(value) ==
    LET lines == splitlines(value)
        long_lines == /\ \E i \in 1..Len(lines) : Len(lines[i]) >= LongLine
                      /\ Has(value, SP)
    IN  IF Has(value, NL) THEN "literal"
        ELSE IF long_lines THEN "folded"
        ELSE ""

StringStyle(value) ==
    LET lines == splitlines(value)
        long_lines == /\ \E i \in 1..Len(lines) : Len(lines[i]) > LongLine
                      /\ Has(value, SP)
        multilines == Has(value, NL)
    IN  IF multilines THEN "literal"
        ELSE IF long_lines THEN "folded"
        ELSE ""

\* repr(value) of a value that is no string
Repr(o) ==
    CASE o.cls = "int" -> repr_int(o.num)
      [] o.cls = "float" -> o.str
      [] o.cls = "bool" -> IF o.num = 1 THEN <<"T", "r", "u", "e">>
                           ELSE <<"F", "a", "l", "s", "e">>
      [] OTHER -> <<"N", "o", "n", "e">>

string_dumper(o, _tag) ==
    LET value == IF o.cls \in {"str", "unicode"} THEN o.str ELSE Repr(o)
    IN  ScalarNode(_tag, value, StringStyle(value))

null_dumper(o) == ScalarNode(TagNull, <<>>, "")

boolean_dumper(o) ==
    ScalarNode(TagBool, IF o.num = 1 THEN S_yes ELSE S_no, "")

\* the order items.sort() gives string keys: by character, then by length
CharOrder == <<NL, CR, SP, "+", "-", ".", "0", "1", "2", "3", "4", "5", "6", "7",
               "8", "9", "_", "a", "b", "c", "e", "f", "g", "l", "n", "o", "r",
               "s", "t", "u", "y", "~">>
Rank(c) == IF \E i \in 1..Len(CharOrder) : CharOrder[i] = c
           THEN CHOOSE i \in 1..Len(CharOrder) : CharOrder[i] = c
           ELSE 0

RECURSIVE StrLess(_, _)
StrLess(a, b) ==
    IF a = <<>> THEN b # <<>>
    ELSE IF b = <<>> THEN FALSE
    ELSE IF a[1] = b[1] THEN StrLess(Tail(a), Tail(b))
    ELSE Rank(a[1]) < Rank(b[1])

RECURSIVE SortPairs(_)
SortPairs(pairs) ==
    IF pairs = <<>> THEN <<>>
    ELSE LET m == CHOOSE i \in 1..Len(pairs) :
                    \A j \in 1..Len(pairs) : ~StrLess(pairs[j].key.str, pairs[i].key.str)
         IN  <<pairs[m]>> \o
             SortPairs([k \in 1..(Len(pairs) - 1) |->
                          IF k < m THEN pairs[k] ELSE pairs[k + 1]])

\* ordered_dumper hands represent_mapping data.items(), a list, which it
\* takes in order; handed a mapping, represent_mapping sorts its items
\* the mapping itself handed to represent_mapping, not its items
ordered_dumper_items_sorted(o) == SortPairs(o.sub)

ordered_dumper_items(o) == o.sub

\* BaseRepresenter.represent_data with the rule table T of the dumper class:
\* the rule of the value's exact type, or the rule registered for None
RECURSIVE Represent(_, _)
Represent(T, o) ==
    LET rule == IF o.cls \in DOMAIN T THEN T[o.cls] ELSE T["None"]
        items == [i \in 1..Len(o.sub) |-> Represent(T, o.sub[i])]
        pairsOf(ps) == [i \in 1..Len(ps) |->
                          Pair(Represent(T, ps[i].key), Represent(T, ps[i].val))]
        mapping(ps) == LET n == pairsOf(ps) IN
                       IF HasPairError(n) THEN ErrorNode ELSE MappingNode(TagMap, n)
    IN  CASE rule = "string_dumper" -> string_dumper(o, TagStr)
          [] rule = "string_dumper_int" -> string_dumper(o, TagInt)
          [] rule = "string_dumper_float" -> string_dumper(o, TagFloat)
          [] rule = "boolean_dumper" -> boolean_dumper(o)
          [] rule = "null_dumper" -> null_dumper(o)
          [] rule = "ordered_dumper" -> mapping(ordered_dumper_items(o))
          [] rule = "represent_dict" -> mapping(SortPairs(o.sub))
          [] rule = "represent_none" -> ScalarNode(TagNull, S_null, "")
          [] rule = "represent_bool" ->
                ScalarNode(TagBool, IF o.num = 1 THEN S_true
                                    ELSE <<"f", "a", "l", "s", "e">>, "")
          [] rule \in {"represent_int", "represent_long"} ->
                ScalarNode(TagInt, repr_int(o.num), "")
          [] rule = "represent_float" -> ScalarNode(TagFloat, o.str, "")
          [] rule \in {"represent_str", "represent_unicode"} ->
                ScalarNode(TagStr, o.str, "")
          [] rule \in {"represent_date", "represent_datetime"} ->
                ScalarNode(TagTimestamp, o.str, "")
          [] rule = "represent_list" ->
                IF HasError(items) THEN ErrorNode ELSE SequenceNode(TagSeq, items)
          [] rule = "represent_set" ->
                IF HasError(items) THEN ErrorNode
                ELSE MappingNode(TagSet,
                       [i \in 1..Len(items) |->
                          Pair(items[i], Represent(T, PyNone))])
          [] OTHER -> ErrorNode

\* ------------------------------------------------------------------ emitter
\* Emitter.analyze_scalar, for the characters of the model ("\r" is a
\* special character; there are no indicator characters among them)
Adjacent(v, a, b) == \E i \in 1..(Len(v) - 1) : v[i] = a /\ v[i + 1] = b

allow_block_plain(v) ==
    \/ v = <<>>
    \/ /\ v[1] \notin {SP, NL}
       /\ v[Len(v)] \notin {SP, NL}
       /\ ~Adjacent(v, NL, SP)
       /\ ~Adjacent(v, SP, NL)
       /\ ~Has(v, CR)
       /\ ~Has(v, NL)

allow_single_quoted(v) ==
    ~Adjacent(v, NL, SP) /\ ~Adjacent(v, SP, NL) /\ ~Has(v, CR)

allow_block(v) ==
    /\ v # <<>>
    /\ v[Len(v)] # SP
    /\ ~Adjacent(v, SP, NL)
    /\ ~Has(v, CR)

\* Emitter.check_simple_key for a scalar key
check_simple_key(n) ==
    /\ n.cls = "ScalarNode"
    /\ ~Has(n.str, NL)
    /\ Len(n.str) < 128

\* Emitter.choose_scalar_style: the style a scalar is written in, given the
\* style asked for, whether its tag is the one a plain scalar resolves to,
\* and whether it is written as a simple key
choose_scalar_style(style, implicit0, v, simple_key) ==
    IF /\ style = ""
       /\ implicit0
       /\ ~(simple_key /\ (v = <<>> \/ Has(v, NL)))
       /\ allow_block_plain(v)
    THEN "plain"
    ELSE IF style \in {"literal", "folded"} /\ ~simple_key /\ allow_block(v)
    THEN style
    ELSE IF style = "" /\ allow_single_quoted(v) /\ ~(simple_key /\ Has(v, NL))
    THEN "single"
    ELSE "double"

\* Serializer.serialize_node and Emitter.process_scalar / process_tag: the
\* tag is written unless the scalar resolves to it without one
RECURSIVE Emit(_, _)
Emit(n, simple_key) ==
    CASE n.cls = "ScalarNode" ->
           LET implicit0 == n.tag = ResolveScalar(n.str, TRUE)
               implicit1 == n.tag = ResolveScalar(n.str, FALSE)
               style == choose_scalar_style(n.sty, implicit0, n.str, simple_key)
               written == IF \/ style = "plain" /\ implicit0
                             \/ style # "plain" /\ implicit1
                          THEN "" ELSE n.tag
           IN  Scalar(style, written, n.str)
      [] n.cls = "SequenceNode" ->
           BlockSeq([i \in 1..Len(n.sub) |-> Emit(n.sub[i], FALSE)])
      [] n.cls = "MappingNode" ->
           BlockMap(IF n.tag = TagMap THEN "" ELSE n.tag,
                    [i \in 1..Len(n.sub) |->
                       Pair(Emit(n.sub[i].key, check_simple_key(n.sub[i].key)),
                            Emit(n.sub[i].val, FALSE))])

\* dump(obj): yaml.dump(obj, Dumper=SaneDumper, ...), the text or the error
SaneDumperTable(reps) == TableOf(reps, "SaneDumper", SafeRepresenter_yaml_representers)

DumpResult(reps, o) ==
    LET n == Represent(SaneDumperTable(reps), o)
    IN  IF n.cls = "RepresenterError"
        THEN [err |-> "RepresenterError", text |-> NoText, node |-> n]
        ELSE [err |-> "none", text |-> Emit(n, FALSE), node |-> n]

\* ----------------------------------------------------------------- composer
\* Composer.compose_node over the scanned document: a scalar gets the tag
\* written before it, or the one the resolver gives its characters
RECURSIVE Compose(_)
Compose(d) ==
    CASE d.cls = "scalar" ->
           ScalarNode(IF d.tag # "" THEN d.tag
                      ELSE ResolveScalar(d.str, d.sty = "plain"),
                      d.str, d.sty)
      [] d.cls = "seq" ->
           SequenceNode(TagSeq, [i \in 1..Len(d.sub) |-> Compose(d.sub[i])])
      [] d.cls = "map" ->
           MappingNode(IF d.tag # "" THEN d.tag ELSE TagMap,
                       [i \in 1..Len(d.sub) |->
                          Pair(Compose(d.sub[i].key), Compose(d.sub[i].val))])

\* ------------------------------------------------------------- constructors
RECURSIVE ParseInt(_)
ParseInt(v) ==
    IF v = <<>> THEN 0
    ELSE 10 * ParseInt(SubSeq(v, 1, Len(v) - 1))
         + (CHOOSE d \in 0..9 : DigitChar(d) = v[Len(v)])

\* string_loader: loader.construct_scalar(node), the scalar's characters
string_loader(n) == PyUnicode(n.str)

\* the scalar constructors, by rule name
ScalarRules == {"string_loader", "construct_yaml_null", "construct_yaml_bool",
                "construct_yaml_int", "construct_yaml_float",
                "construct_yaml_str", "construct_yaml_timestamp"}

ConstructScalar(rule, n) ==
    CASE rule = "string_loader" -> string_loader(n)
      [] rule = "construct_yaml_null" -> PyNone
      [] rule = "construct_yaml_bool" ->
           PyBool(n.str \in {S_yes, S_true, <<"o", "n">>,
                             <<"Y", "e", "s">>, <<"Y", "E", "S">>,
                             <<"T", "r", "u", "e">>, <<"T", "R", "U", "E">>,
                             <<"O", "n">>, <<"O", "N">>})
      [] rule = "construct_yaml_int" ->
           IF AllIn(n.str, Digits) THEN PyInt(ParseInt(n.str)) ELSE PyInt(0)
      [] rule = "construct_yaml_float" -> PyFloat(n.str)
      [] rule = "construct_yaml_str" -> PyStr(n.str)
      [] rule = "construct_yaml_timestamp" -> PyDate(n.str)

\* the loader's state while a document is constructed
LoadState(b, g, e) == [built |-> b, gens |-> g, err |-> e]

\* the container a generator constructor yields before it fills it
Yielded(rule) ==
    CASE rule \in {"ordered_loader", "construct_yaml_omap"} -> PyOrderedDict(<<>>)
      [] rule = "construct_yaml_map" -> Py("dict", 0, <<>>, <<>>)
      [] rule = "construct_yaml_seq" -> PyList(<<>>)

\* BaseConstructor.construct_object(node) with deep=False, for the node n at
\* path p: a scalar is built at once; a generator constructor yields its
\* empty container and is queued on state_generators
ConstructObject(T, st, n, p) ==
    LET rule == IF n.tag \in DOMAIN T THEN T[n.tag] ELSE T["None"]
    IN  IF st.err # "none" THEN st
        ELSE IF rule \in ScalarRules /\ n.cls = "ScalarNode"
        THEN [st EXCEPT !.built = (p :> ConstructScalar(rule, n)) @@ @]
        ELSE IF \/ rule \in {"ordered_loader", "construct_yaml_map",
                             "construct_yaml_omap"} /\ n.cls = "MappingNode"
                \/ rule = "construct_yaml_seq" /\ n.cls = "SequenceNode"
        THEN [st EXCEPT !.built = (p :> Yielded(rule)) @@ @,
                        !.gens = Append(@, [path |-> p, node |-> n, rule |-> rule])]
        ELSE [st EXCEPT !.err = "ConstructorError"]

\* omap[key] = value on an OrderedDict's items: a key already there keeps
\* its place and takes the new value, a new key goes last
\* a key already there keeps its first value
SetItem_FirstWins(items, k, v) ==
    IF \E j \in 1..Len(items) : items[j].key = k
    THEN items
    ELSE Append(items, Pair(k, v))

SetItem(items, k, v) ==
    IF \E j \in 1..Len(items) : items[j].key = k
    THEN [j \in 1..Len(items) |->
            IF items[j].key = k THEN Pair(k, v) ELSE items[j]]
    ELSE Append(items, Pair(k, v))

\* ordered_loader after its yield: for key, value in node.value, construct
\* both and set omap[key] = value.  r is the loader state and the items so far.
\* the mapping returned where it is yielded: the loop never runs
ordered_loader_returns_empty(T, st, n, p, i) == st

RECURSIVE ordered_loader_fill(_, _, _, _, _)
ordered_loader_fill(T, st, n, p, i) ==
    IF i > Len(n.sub) \/ st.err # "none" THEN st
    ELSE LET kp == p \o <<i, 1>>
             vp == p \o <<i, 2>>
             st1 == ConstructObject(T, st, n.sub[i].key, kp)
             st2 == ConstructObject(T, st1, n.sub[i].val, vp)
         IN  IF st2.err # "none" THEN st2
             ELSE ordered_loader_fill(
                    T,
                    [st2 EXCEPT !.built[p].sub = SetItem(@, st2.built[kp], vp)],
                    n, p, i + 1)

\* SafeConstructor.construct_yaml_seq after its yield:
\* data.extend(self.construct_sequence(node))
RECURSIVE construct_sequence(_, _, _, _, _)
construct_sequence(T, st, n, p, i) ==
    IF i > Len(n.sub) \/ st.err # "none" THEN st
    ELSE LET cp == p \o <<i>>
             st1 == ConstructObject(T, st, n.sub[i], cp)
         IN  IF st1.err # "none" THEN st1
             ELSE construct_sequence(
                    T, [st1 EXCEPT !.built[p].sub = Append(@, cp)], n, p, i + 1)

\* SafeConstructor.construct_yaml_map after its yield: a plain dict, whose
\* items come back in no order of the source (modelled: sorted by key)
construct_yaml_map_fill(T, st, n, p) ==
    LET st1 == ordered_loader_fill(T, st, n, p, 1)
    IN  IF st1.err # "none" THEN st1
        ELSE [st1 EXCEPT !.built[p].sub = SortPairs(@)]

\* one queued generator run to its end
RunGenerator(T, st, g) ==
    CASE g.rule \in {"ordered_loader", "construct_yaml_omap"} ->
           ordered_loader_fill(T, st, g.node, g.path, 1)
      [] g.rule = "construct_yaml_map" ->
           construct_yaml_map_fill(T, st, g.node, g.path)
      [] g.rule = "construct_yaml_seq" ->
           construct_sequence(T, st, g.node, g.path, 1)

\* the value at path p with the containers' items followed
RECURSIVE Materialize(_, _)
Materialize(b, p) ==
    LET v == b[p] IN
    CASE v.cls = "list" ->
           [v EXCEPT !.sub = [i \in 1..Len(v.sub) |-> Materialize(b, v.sub[i])]]
      [] v.cls \in {"OrderedDict", "dict"} ->
           [v EXCEPT !.sub = [i \in 1..Len(v.sub) |->
                                Pair(v.sub[i].key, Materialize(b, v.sub[i].val))]]
      [] OTHER -> v

SaneLoaderTable(ctors) ==
    TableOf(ctors, "SaneLoader", SafeConstructor_yaml_constructors)

\* ------------------------------------------------------------------- inputs
\* sequences over S of length n, and those without a repeated element
RECURSIVE SeqsOf(_, _)
SeqsOf(S, n) ==
    IF n = 0 THEN {<<>>}
    ELSE {Append(q, x) : q \in SeqsOf(S, n - 1), x \in S}

UpTo(S, n) == UNION {SeqsOf(S, k) : k \in 0..n}

Injective(q) == \A i, j \in 1..Len(q) : i # j => q[i] # q[j]

\* [key, val] pair sequences: one per sequence of keys and of values
PairSeqs(Ks, Vs, n) ==
    UNION { { [i \in 1..k |-> Pair(ks[i], vs[i])] :
              ks \in SeqsOf(Ks, k), vs \in SeqsOf(Vs, k) } : k \in 0..n }

Strings == {S_abc, S_true, S_yes, S_no, S_123, S_314, S_1e20, S_date, S_null,
            S_tilde, S_empty, S_multi, S_line40, S_line41, S_word41,
            S_multilong, S_shortlines, S_cr, S_trail}

\* the values a caller may put in a tree: the seven kinds, and others
TreeLeaves ==
    {PyNone, PyBool(TRUE), PyBool(FALSE), PyInt(123), PyInt(7),
     PyFloat(S_314), PyFloat(S_1e20), PyStr(S_abc),
     PyObject, PyComplex, PyDate(S_date), PyTuple(<<PyUnicode(S_abc)>>)}
    \cup {PyUnicode(s) : s \in Strings}

TreeItems ==
    {PyNone, PyBool(TRUE), PyInt(123),
     PyUnicode(S_yes), PyUnicode(S_multi), PyUnicode(S_line41),
     PyList(<<PyUnicode(S_123), PyObject>>),
     PyOrderedDict(<<Pair(PyUnicode(S_b), PyUnicode(S_null)),
                     Pair(PyUnicode(S_a), PyList(<<PyUnicode(S_true)>>))>>)}

TreeKeys == {PyUnicode(S_flag), PyUnicode(S_line41), PyUnicode(S_multi)}

TreeValues ==
    {PyNone, PyBool(TRUE), PyBool(FALSE), PyUnicode(S_abc),
     PyList(<<PyDate(S_date), PyObject>>),
     PyOrderedDict(<<Pair(PyUnicode(S_b), PyUnicode(S_2)),
                     Pair(PyUnicode(S_a),
                          PyList(<<PyUnicode(S_1), PyUnicode(S_yes)>>))>>)}

InputTrees ==
    TreeLeaves
    \cup {PyList(q) : q \in UpTo(TreeItems, MaxLen)}
    \cup {PyOrderedDict(q) :
            q \in {r \in PairSeqs(TreeKeys, TreeValues, MaxPairs - 1) :
                     Injective([i \in 1..Len(r) |-> r[i].key])}}

\* the documents a caller may hand to load
PlainWords == {S_abc, S_true, S_yes, S_no, S_123, S_314, S_1e20, S_date,
               S_null, S_tilde, S_empty}

DocScalars ==
    {Plain(s) : s \in PlainWords}
    \cup {Quoted(S_true), Quoted(S_123), Scalar("double", "", S_cr),
          Scalar("literal", "", S_multi), Scalar("folded", "", S_line41)}

DocItems == {Plain(S_abc), Plain(S_true), Plain(S_123), Quoted(S_null),
             BlockSeq(<<Plain(S_1), Plain(S_yes)>>),
             BlockMap("", <<Pair(Plain(S_b), Plain(S_1)),
                            Pair(Plain(S_a), Plain(S_2))>>)}

DocKeys == {Plain(S_a), Plain(S_b), Plain(S_1)}

DocValues ==
    {Plain(S_1), Plain(S_2),
     BlockMap("", <<Pair(Plain(S_c), BlockSeq(<<Plain(S_null), Plain(S_true)>>)),
                    Pair(Plain(S_a),
                         BlockMap("", <<Pair(Plain(S_b), Plain(S_2)),
                                        Pair(Plain(S_b), Plain(S_1))>>))>>)}

InputDocs ==
    DocScalars
    \cup {BlockSeq(q) : q \in UpTo(DocItems, MaxLen)}
    \cup {BlockMap("", q) : q \in PairSeqs(DocKeys, DocValues, MaxPairs)}

\* ------------------------------------------------------------------ actions
Init ==
    /\ stmt = 1
    /\ yaml_constructors = [c \in LoaderClasses |-> NoTable]
    /\ yaml_representers = [c \in DumperClasses |-> NoTable]
    /\ pc = "import"
    /\ obj = NoValue
    /\ text = NoText
    /\ err = "none"
    /\ node = ErrorNode
    /\ built = <<>>
    /\ state_generators = <<>>
    /\ calls = <<>>

AfterStmt == IF stmt + 1 > Len(ModuleBody) THEN "idle" ELSE "import"

\* SaneLoader.add_constructor(tag, constructor), as the module body runs it
add_constructor ==
    /\ pc = "import"
    /\ stmt <= Len(ModuleBody)
    /\ ModuleBody[stmt].op = "add_constructor"
    /\ yaml_constructors' =
         Registered(yaml_constructors, ModuleBody[stmt].class,
                    SafeConstructor_yaml_constructors,
                    ModuleBody[stmt].key, ModuleBody[stmt].fn)
    /\ stmt' = stmt + 1
    /\ pc' = AfterStmt
    /\ UNCHANGED <<yaml_representers, obj, text, err, node, built,
                   state_generators, calls>>

\* SaneDumper.add_representer / SafeDumper.add_representer(type, representer)
add_representer ==
    /\ pc = "import"
    /\ stmt <= Len(ModuleBody)
    /\ ModuleBody[stmt].op = "add_representer"
    /\ yaml_representers' =
         Registered(yaml_representers, ModuleBody[stmt].class,
                    SafeRepresenter_yaml_representers,
                    ModuleBody[stmt].key, ModuleBody[stmt].fn)
    /\ stmt' = stmt + 1
    /\ pc' = AfterStmt
    /\ UNCHANGED <<yaml_constructors, obj, text, err, node, built,
                   state_generators, calls>>

Call(o, t, d, e) == [op |-> o, tree |-> t, doc |-> d, err |-> e]

Last(q) == q[Len(q)]

\* what the caller passes: a tree of its own, or what the last load returned
DumpArgs ==
    IF calls = <<>> THEN InputTrees
    ELSE IF Last(calls).op = "load" /\ err = "none" THEN {obj}
    ELSE {}

\* what the caller passes: a document of its own, or what the last dump returned
LoadArgs ==
    IF calls = <<>> THEN InputDocs
    ELSE IF Last(calls).op = "dump" /\ err = "none" THEN {text}
    ELSE {}

\* dump(obj)
dump ==
    /\ pc = "idle"
    /\ Len(calls) < MaxCalls
    /\ \E t \in DumpArgs :
         LET r == DumpResult(yaml_representers, t) IN
         /\ obj' = t
         /\ text' = r.text
         /\ err' = r.err
         /\ node' = r.node
         /\ calls' = Append(calls, Call("dump", t, r.text, r.err))
    /\ UNCHANGED <<stmt, yaml_constructors, yaml_representers, pc, built,
                   state_generators>>

\* load(s) up to the return of construct_object(root) in construct_document
load ==
    /\ pc = "idle"
    /\ Len(calls) < MaxCalls
    /\ \E d \in LoadArgs :
         LET n == Compose(d)
             st == ConstructObject(SaneLoaderTable(yaml_constructors),
                                   LoadState(<<>>, <<>>, "none"), n, <<>>)
         IN  /\ text' = d
             /\ node' = n
             /\ obj' = NoValue
             /\ err' = st.err
             /\ IF st.err = "none"
                THEN /\ pc' = "loading"
                     /\ built' = st.built
                     /\ state_generators' = st.gens
                     /\ calls' = calls
                ELSE /\ pc' = "idle"
                     /\ built' = <<>>
                     /\ state_generators' = <<>>
                     /\ calls' = Append(calls, Call("load", NoValue, d, st.err))
    /\ UNCHANGED <<stmt, yaml_constructors, yaml_representers>>

\* construct_document's loop: the next queued generator runs to its end
resume_generator ==
    /\ pc = "loading"
    /\ state_generators # <<>>
    /\ LET st == RunGenerator(SaneLoaderTable(yaml_constructors),
                              LoadState(built, Tail(state_generators), "none"),
                              Head(state_generators))
       IN  /\ err' = st.err
           /\ IF st.err = "none"
              THEN /\ pc' = "loading"
                   /\ built' = st.built
                   /\ state_generators' = st.gens
                   /\ calls' = calls
              ELSE /\ pc' = "idle"
                   /\ built' = <<>>
                   /\ state_generators' = <<>>
                   /\ calls' = Append(calls, Call("load", NoValue, text, st.err))
    /\ UNCHANGED <<stmt, yaml_constructors, yaml_representers, obj, text, node>>

\* construct_document returns once state_generators is empty
load_return ==
    /\ pc = "loading"
    /\ state_generators = <<>>
    /\ obj' = Materialize(built, <<>>)
    /\ calls' = Append(calls, Call("load", Materialize(built, <<>>), text, "none"))
    /\ built' = <<>>
    /\ pc' = "idle"
    /\ UNCHANGED <<stmt, yaml_constructors, yaml_representers, text, err, node,
                   state_generators>>

\* the caller lets go of the tree and the text and starts over
forget ==
    /\ pc = "idle"
    /\ calls # <<>>
    /\ obj' = NoValue
    /\ text' = NoText
    /\ err' = "none"
    /\ node' = ErrorNode
    /\ calls' = <<>>
    /\ UNCHANGED <<stmt, yaml_constructors, yaml_representers, pc, built,
                   state_generators>>

Next ==
    \/ add_constructor
    \/ add_representer
    \/ dump
    \/ load
    \/ resume_generator
    \/ load_return
    \/ forget

Spec == Init /\ [][Next]_vars

\* ================================================================== claims
Loads == {k \in 1..Len(calls) : calls[k].op = "load" /\ calls[k].err = "none"}
Dumps == {k \in 1..Len(calls) : calls[k].op = "dump" /\ calls[k].err = "none"}
DumpCalls == {k \in 1..Len(calls) : calls[k].op = "dump"}

KeyChars(pairs) == [i \in 1..Len(pairs) |-> pairs[i].key.str]

\* the types of the values of a tree
RECURSIVE Classes(_)
Classes(t) ==
    {t.cls} \cup
    (IF t.cls \in SequenceTypes
     THEN UNION {Classes(t.sub[i]) : i \in 1..Len(t.sub)}
     ELSE IF t.cls \in MappingTypes
     THEN UNION {Classes(t.sub[i].key) \cup Classes(t.sub[i].val) : i \in 1..Len(t.sub)}
     ELSE {})

\* a Value Tree: String, Sequence and Mapping nodes only
OnlyStrings(t) == Classes(t) \subseteq {"unicode", "list", "OrderedDict"}

\* the depth of a tree: 0 for a scalar
RECURSIVE Depth(_)
Depth(t) ==
    IF t.sub = <<>> THEN 0
    ELSE 1 + (CHOOSE m \in 0..8 :
                LET ds == {Depth(IF t.cls = "OrderedDict" \/ t.cls = "map"
                                    \/ t.cls = "MappingNode"
                                 THEN t.sub[i].val ELSE t.sub[i]) : i \in 1..Len(t.sub)}
                IN  m \in ds /\ \A x \in ds : x <= m)

\* ---- C1
\* every unquoted, untagged scalar of d is, in t, the string of its characters
RECURSIVE ReadsLiterally(_, _)
ReadsLiterally(d, t) ==
    CASE d.cls = "scalar" ->
           (d.sty = "plain" /\ d.tag = "") => t = PyUnicode(d.str)
      [] d.cls = "seq" ->
           /\ t.cls = "list"
           /\ Len(t.sub) = Len(d.sub)
           /\ \A i \in 1..Len(d.sub) : ReadsLiterally(d.sub[i], t.sub[i])
      [] d.cls = "map" ->
           /\ t.cls = "OrderedDict"
           /\ \A j \in 1..Len(t.sub) : \E i \in 1..Len(d.sub) :
                /\ ReadsLiterally(d.sub[i].key, t.sub[j].key)
                /\ ReadsLiterally(d.sub[i].val, t.sub[j].val)

\* C1: load yields every unquoted scalar (true, 123, 2020-01-01, null, ~,
\* 3.14, ...) as the string of its source text, and no node of a tree load
\* returns is a native boolean, number, null or timestamp.
C1_UnquotedScalarsLoadAsStrings ==
    \A k \in Loads :
      /\ OnlyStrings(calls[k].tree)
      /\ ReadsLiterally(calls[k].doc, calls[k].tree)

\* ---- C2
SevenKinds == {"NoneType", "bool", "int", "float", "unicode", "str", "list",
               "OrderedDict"}

\* the first three calls were dump, load, dump and none failed
RoundTrip3 ==
    /\ Len(calls) >= 3
    /\ calls[1].op = "dump"
    /\ {1, 2, 3} \subseteq Loads \cup Dumps

RECURSIVE OrderKept(_, _)
OrderKept(d, t) ==
    CASE d.cls = "map" ->
           Injective(KeyChars(d.sub)) =>
             /\ t.cls = "OrderedDict"
             /\ KeyChars(t.sub) = KeyChars(d.sub)
             /\ \A i \in 1..Len(d.sub) : OrderKept(d.sub[i].val, t.sub[i].val)
      [] d.cls = "seq" ->
           /\ t.cls \in SequenceTypes
           /\ Len(t.sub) = Len(d.sub)
           /\ \A i \in 1..Len(d.sub) : OrderKept(d.sub[i], t.sub[i])
      [] OTHER -> TRUE

\* C4: load yields each mapping with its keys in the order of the source
\* text, dump writes the keys of a tree in the tree's order, and the order
\* stays the same over any number of load / dump cycles.
C4_KeyOrderKept ==
    /\ \A k \in Loads \cup Dumps : OrderKept(calls[k].doc, calls[k].tree)
    /\ \A j, k \in Loads \cup Dumps :
         (/\ calls[1].op = "load"
          /\ calls[1].doc.cls = "map"
          /\ Injective(KeyChars(calls[1].doc.sub)))
            => /\ KeyChars(calls[j].doc.sub) = KeyChars(calls[k].doc.sub)
               /\ KeyChars(calls[j].tree.sub) = KeyChars(calls[1].doc.sub)

C4_Witness ==
    /\ Len(calls) = MaxCalls
    /\ calls[1].op = "load"
    /\ (1..MaxCalls) \subseteq Loads \cup Dumps
    /\ calls[1].doc.cls = "map"
    /\ KeyChars(calls[1].doc.sub) = <<S_b, S_1, S_a>>
    /\ KeyChars(calls[MaxCalls].doc.sub) = <<S_b, S_1, S_a>>
    /\ Depth(calls[1].doc) >= 2

\* ---- C5
Flag(v) == PyOrderedDict(<<Pair(PyUnicode(S_flag), v)>>)
YesNo(b) == IF b THEN S_yes ELSE S_no

\* C5: dump of a mapping holding a native true writes the unquoted token yes
\* (no for false), and load of that text yields the string "yes" ("no"),
\* never a native boolean.
C5_BooleanReloadsAsString ==
    \A k \in Dumps : \A b \in BOOLEAN :
      calls[k].tree = Flag(PyBool(b)) =>
        /\ calls[k].doc = BlockMap("", <<Pair(Plain(S_flag), Plain(YesNo(b)))>>)
        /\ (k + 1) \in Loads => calls[k + 1].tree = Flag(PyUnicode(YesNo(b)))

\* ---- C6
\* every None of t is written in d as an empty scalar that reads as a null
RECURSIVE NullsEmpty(_, _)
NullsEmpty(t, d) ==
    CASE t.cls = "NoneType" ->
           d.cls = "scalar" /\ d.str = <<>> /\ Compose(d).tag = TagNull
      [] t.cls \in SequenceTypes ->
           \A i \in 1..Len(t.sub) : NullsEmpty(t.sub[i], d.sub[i])
      [] t.cls \in MappingTypes ->
           \A i \in 1..Len(t.sub) : NullsEmpty(t.sub[i].val, d.sub[i].val)
      [] OTHER -> TRUE

\* C6: dump writes every null node as an empty scalar tagged null, whatever
\* the order in which the dumper rules were registered.
C6_NullsEmittedEmpty ==
    \A k \in Dumps : NullsEmpty(calls[k].tree, calls[k].doc)

\* ---- C7
\* the strings of a tree, each with the style its node asks for
RECURSIVE StyledStrings(_, _)
StyledStrings(t, n) ==
    CASE t.cls \in {"unicode", "str"} -> {<<t.str, n.sty>>}
      [] t.cls \in SequenceTypes ->
           UNION {StyledStrings(t.sub[i], n.sub[i]) : i \in 1..Len(t.sub)}
      [] t.cls \in MappingTypes ->
           UNION {StyledStrings(t.sub[i].key, n.sub[i].key)
                    \cup StyledStrings(t.sub[i].val, n.sub[i].val) : i \in 1..Len(t.sub)}
      [] OTHER -> {}

\* the strings the last dump represented, with their styles
LastStyled ==
    IF pc = "idle" /\ calls # <<>> /\ Last(calls).op = "dump" /\ err = "none"
    THEN StyledStrings(obj, node)
    ELSE {}

\* more than LongLine characters in a row with none of the characters B
HasLongRun(B, v) ==
    \E i \in 1..(Len(v) - LongLine) : \A j \in i..(i + LongLine) : v[j] \notin B

\* the style of the claim, reading "line break" as one of the characters B
ClaimedStyle(B, v) ==
    IF \E i \in 1..Len(v) : v[i] \in B THEN "literal"
    ELSE IF HasLongRun(B, v) /\ Has(v, SP) THEN "folded"
    ELSE ""

\* C7 as stated: literal-block if the string contains a line break,
\* otherwise folded if a line is longer than 40 characters and the string
\* contains a space, otherwise plain: with the line feed as the line break,
\* or with the line feed and the carriage return.
C7_StyleByLineBreak ==
    \A x \in LastStyled :
      \E B \in {{NL}, {NL, CR}} : x[2] = ClaimedStyle(B, x[1])

\* C7 amended: literal-block if the string contains a line feed; otherwise
\* folded if one of the lines that line feeds and carriage returns delimit
\* is longer than 40 characters and the string contains a space; otherwise
\* plain.  40 characters are not long, and a long line without a space
\* stays plain.
C7_StyleSelection ==
    \A x \in LastStyled :
      x[2] = IF Has(x[1], NL) THEN "literal"
             ELSE IF HasLongRun({NL, CR}, x[1]) /\ Has(x[1], SP) THEN "folded"
             ELSE ""

C7_Witness ==
    /\ {<<S_line41, "folded">>, <<S_multi, "literal">>} \subseteq LastStyled
    /\ obj.cls = "list"

\* ---- C8
LastIndex(keys, c) == CHOOSE i \in 1..Len(keys) :
                        keys[i] = c /\ \A j \in (i + 1)..Len(keys) : keys[j] # c

\* t is what d reads as, a repeated key read with its last value
RECURSIVE LastWins(_, _)
LastWins(d, t) ==
    CASE d.cls = "scalar" -> t.cls = "bool" \/ t = PyUnicode(d.str)
      [] d.cls = "seq" ->
           /\ t.cls = "list"
           /\ Len(t.sub) = Len(d.sub)
           /\ \A i \in 1..Len(d.sub) : LastWins(d.sub[i], t.sub[i])
      [] d.cls = "map" ->
           /\ t.cls = "OrderedDict"
           /\ Injective(KeyChars(t.sub))
           /\ {KeyChars(t.sub)[j] : j \in 1..Len(t.sub)}
                = {KeyChars(d.sub)[i] : i \in 1..Len(d.sub)}
           /\ \A j \in 1..Len(t.sub) :
                LastWins(d.sub[LastIndex(KeyChars(d.sub), t.sub[j].key.str)].val,
                         t.sub[j].val)

\* C8: when a key occurs more than once in a source mapping, load yields one
\* entry for it, holding the value of its last occurrence.
C8_LastValueWins ==
    \A k \in Loads : LastWins(calls[k].doc, calls[k].tree)

C8_Witness ==
    /\ Len(calls) = 1
    /\ 1 \in Loads
    /\ calls[1].doc = BlockMap("", <<Pair(Plain(S_a), Plain(S_1)),
                                     Pair(Plain(S_b), Plain(S_1)),
                                     Pair(Plain(S_a), Plain(S_2))>>)
    /\ calls[1].tree = PyOrderedDict(<<Pair(PyUnicode(S_a), PyUnicode(S_2)),
                                       Pair(PyUnicode(S_b), PyUnicode(S_1))>>)

\* ---- C9
\* every mapping and sequence of t holds an entry for every pair and item of
\* the node it was built from
RECURSIVE Complete(_, _)
Complete(n, t) ==
    CASE n.cls = "MappingNode" ->
           /\ t.cls = "OrderedDict"
           /\ \A i \in 1..Len(n.sub) : \E j \in 1..Len(t.sub) :
                /\ t.sub[j].key.str = n.sub[i].key.str
                /\ \E i2 \in 1..Len(n.sub) :
                     /\ n.sub[i2].key.str = n.sub[i].key.str
                     /\ Complete(n.sub[i2].val, t.sub[j].val)
      [] n.cls = "SequenceNode" ->
           /\ t.cls = "list"
           /\ Len(t.sub) = Len(n.sub)
           /\ \A i \in 1..Len(n.sub) : Complete(n.sub[i], t.sub[i])
      [] OTHER -> TRUE

\* C9: the map builder hands out an empty mapping and fills it in a deferred
\* step, and load never returns a partially built tree: when it returns no
\* fill is pending, and every mapping at every depth holds an entry for
\* every pair of its source node.
C9_NoPartialTree ==
    /\ pc = "loading" =>
         \A i \in 1..Len(state_generators) :
           built[state_generators[i].path].sub = <<>>
    /\ (pc = "idle" /\ calls # <<>> /\ Last(calls).op = "load" /\ err = "none") =>
         /\ state_generators = <<>>
         /\ Complete(node, obj)

C9_Witness ==
    /\ pc = "idle"
    /\ calls # <<>>
    /\ Last(calls).op = "load"
    /\ err = "none"
    /\ node.cls = "MappingNode"
    /\ Depth(node) >= 3
    /\ Complete(node, obj)

\* a state in which the tree built so far is partial
C9_PartialWhileLoading ==
    /\ pc = "loading"
    /\ state_generators # <<>>
    /\ <<>> \in DOMAIN built
    /\ ~Complete(node, Materialize(built, <<>>))

\* ---- C10
\* the seven kinds, a tuple counted as a sequence
SevenKindsOrTuple == SevenKinds \cup {"tuple"}

\* C10 as stated: dump fails with a serialization error whenever the tree
\* holds, at any depth, a node that is not of the seven kinds, and emits no
\* text for it.
C10_OtherKindsFail ==
    \A k \in DumpCalls :
      ~(Classes(calls[k].tree) \subseteq SevenKindsOrTuple)
        => calls[k].err = "RepresenterError" /\ calls[k].doc = NoText

\* the types in the model for which SaneDumper has no rule, its own or one
\* it inherits from SafeDumper
NoRuleTypes == {"object", "complex"}

\* C10 amended: dump fails with a serialization error, and emits no text,
\* whenever the tree holds at any depth a node of a type SaneDumper has no
\* rule for (an arbitrary object, a complex number); it succeeds on the
\* types whose rule it inherits from SafeDumper (a tuple, a date).
C10_NoRuleFails ==
    \A k \in DumpCalls :
      IF Classes(calls[k].tree) \cap NoRuleTypes # {}
      THEN calls[k].err = "RepresenterError" /\ calls[k].doc = NoText
      ELSE calls[k].err = "none" /\ calls[k].doc # NoText

C10_Witness ==
    /\ Len(calls) = 1
    /\ calls[1].op = "dump"
    /\ calls[1].tree.cls = "OrderedDict"
    /\ Depth(calls[1].tree) >= 2
    /\ "object" \in Classes(calls[1].tree)
    /\ calls[1].err = "RepresenterError"
    /\ text = NoText

====
